---------------------------- MODULE Spec2Model ----------------------------
(***************************************************************************)
(* Deserialization of the chat-membership types of src/types/chat_member.rs *)
(* (ChatMemberStatus, ChatMember, ChatInviteLink, ChatMemberUpdated).       *)
(*                                                                         *)
(* A raw value is what the Deserializer D hands to the visitors: a string, *)
(* an integer, a boolean, null, or a map given as the sequence of its      *)
(* <<key, value>> entries in wire order.  ChatMemberStatus has a hand      *)
(* written Deserialize impl (lines 20-52); the three structs derive        *)
(* Deserialize (lines 55, 91, 109), i.e. the visit_map loop over the wire  *)
(* entries followed by the missing-field pass in declaration order.        *)
(* Sequences (a struct sent as an array, visit_seq) are not among the raw  *)
(* values considered.                                                      *)
(*                                                                         *)
(* The definitions named after an impl with a suffix (visit_str_closed,    *)
(* finish_defaulting, propagate_prefixed, ...) are faulty variants of it:  *)
(* each property below fails when the impl is replaced by one of them.     *)
(***************************************************************************)
EXTENDS Integers, Sequences, FiniteSets, TLC

VARIABLES target, input, result, pc

vars == <<target, input, result, pc>>

(***************************************************************************)
(* Bounds of the explored inputs.                                          *)
(***************************************************************************)
\* integer wire values are 0..MaxInt
MaxInt == 1

\* an input departs from its struct's base record in at most this many keys
MaxDeviations == 2

\* this many of ChatMember's boolean fields, from can_be_edited on, take part
\* in inputs that depart in several keys; each of the others departs alone
NumBools == 3

(***************************************************************************)
(* Raw wire values.                                                        *)
(***************************************************************************)
StrV(s) == [t |-> "str", s |-> s]

IntV(i) == [t |-> "int", i |-> i]

BoolV(b) == [t |-> "bool", b |-> b]

Null == [t |-> "null"]

\* es: the sequence of <<key, raw value>> entries, in wire order
Map(es) == [t |-> "map", m |-> es]

(***************************************************************************)
(* Result<T, D::Error> and Option<T>.                                      *)
(***************************************************************************)
Ok(v) == [ok |-> TRUE, val |-> v]

Err(e) == [ok |-> FALSE, err |-> e]

None == <<>>

Some(v) == <<v>>

(***************************************************************************)
(* serde::de::Error constructors used by the impls.  The field of a        *)
(* missing_field / duplicate_field error is the bare field name the        *)
(* derived code passes; invalid_type carries what was found and what the   *)
(* visitor expected.                                                       *)
(***************************************************************************)
\* missing_field reporting the type's name in place of the field's
missing_field_unnamed(f) == [kind |-> "MissingField", field |-> "struct"]

missing_field(f) == [kind |-> "MissingField", field |-> f]

duplicate_field(f) == [kind |-> "DuplicateField", field |-> f]

\* de::Unexpected: a map is reported without its content
Unexpected(raw) == IF raw.t = "map" THEN [t |-> "map"] ELSE raw

invalid_type(raw, exp) ==
    [kind |-> "InvalidType", unexp |-> Unexpected(raw), exp |-> exp]

(***************************************************************************)
(* enum ChatMemberStatus and its Deserialize impl.                         *)
(***************************************************************************)
Creator == [tag |-> "Creator"]

Administrator == [tag |-> "Administrator"]

Member == [tag |-> "Member"]

Left == [tag |-> "Left"]

Kicked == [tag |-> "Kicked"]

Unknown(s) == [tag |-> "Unknown", payload |-> s]

ChatMemberStatus ==
    {Creator, Administrator, Member, Left, Kicked}

\* ChatMemberStatusVisitor::expecting
expecting == "creator | administrator | member | left | kicked"

\* visit_str matching without regard to case or surrounding blanks
visit_str_normalised(value) ==
    Ok(CASE value \in {"creator", "Creator"} -> Creator
         [] value = "administrator" -> Administrator
         [] value \in {"member", "MEMBER", " member"} -> Member
         [] value \in {"left", "left "} -> Left
         [] value = "kicked" -> Kicked
         [] OTHER -> Unknown(value))

\* visit_str with the arms of "left" and "kicked" exchanged
visit_str_swapped(value) ==
    Ok(CASE value = "creator" -> Creator
         [] value = "administrator" -> Administrator
         [] value = "member" -> Member
         [] value = "left" -> Kicked
         [] value = "kicked" -> Left
         [] OTHER -> Unknown(value))

\* visit_str of a closed enum: a literal outside the five is unknown_variant
visit_str_closed(value) ==
    CASE value = "creator" -> Ok(Creator)
      [] value = "administrator" -> Ok(Administrator)
      [] value = "member" -> Ok(Member)
      [] value = "left" -> Ok(Left)
      [] value = "kicked" -> Ok(Kicked)
      [] OTHER -> Err([kind |-> "UnknownVariant", variant |-> value])

\* ChatMemberStatusVisitor::visit_str
visit_str(value) ==
    Ok(CASE value = "creator" -> Creator
         [] value = "administrator" -> Administrator
         [] value = "member" -> Member
         [] value = "left" -> Left
         [] value = "kicked" -> Kicked
         [] OTHER -> Unknown(value))

\* deserializer.deserialize_str(ChatMemberStatusVisitor): only a string
\* reaches visit_str; the visitor defines no other visit_* method, so any
\* other shape is the default invalid_type error with the visitor's
\* expecting text
deserialize_str(raw) ==
    IF raw.t = "str" THEN visit_str(raw.s)
    ELSE Err(invalid_type(raw, expecting))

(***************************************************************************)
(* The structs.  A field is its name, its declared type and whether the    *)
(* type is wrapped in Option.                                              *)
(***************************************************************************)
Req(n, ty) == [name |-> n, ty |-> ty, opt |-> FALSE]

Opt(n, ty) == [name |-> n, ty |-> ty, opt |-> TRUE]

\* crate::types::User, reduced to its required id
User == <<Req("id", "Integer")>>

\* crate::types::Chat, reduced to its required id
Chat == <<Req("id", "Integer")>>

ChatMember ==
    << Req("user", "User"),
       Req("status", "ChatMemberStatus"),
       Opt("until_date", "Integer"),
       Opt("can_be_edited", "bool"),
       Opt("can_change_info", "bool"),
       Opt("can_post_messages", "bool"),
       Opt("can_edit_messages", "bool"),
       Opt("can_delete_messages", "bool"),
       Opt("can_invite_users", "bool"),
       Opt("can_restrict_members", "bool"),
       Opt("can_pin_messages", "bool"),
       Opt("can_promote_members", "bool"),
       Opt("can_send_messages", "bool"),
       Opt("can_send_media_messages", "bool"),
       Opt("can_send_other_messages", "bool"),
       Opt("can_add_web_page_previews", "bool") >>

ChatInviteLink ==
    << Req("invite_link", "String"),
       Req("creator", "User"),
       Req("is_primary", "bool"),
       Req("is_revoked", "bool"),
       Opt("expire_date", "Integer"),
       Opt("member_limit", "Integer") >>

ChatMemberUpdated ==
    << Req("chat", "Chat"),
       Req("from", "User"),
       Req("date", "Integer"),
       Req("old_chat_member", "ChatMember"),
       Req("new_chat_member", "ChatMember"),
       Opt("invite_link", "ChatInviteLink") >>

StructTypes == {"User", "Chat", "ChatMember", "ChatInviteLink", "ChatMemberUpdated"}

Fields(ty) ==
    CASE ty = "User" -> User
      [] ty = "Chat" -> Chat
      [] ty = "ChatMember" -> ChatMember
      [] ty = "ChatInviteLink" -> ChatInviteLink
      [] ty = "ChatMemberUpdated" -> ChatMemberUpdated

Names(fields) == {fields[j].name : j \in 1..Len(fields)}

FieldOf(fields, n) ==
    fields[CHOOSE j \in 1..Len(fields) : fields[j].name = n]

(***************************************************************************)
(* The primitive impls the field types resolve to.                         *)
(***************************************************************************)
\* a boolean impl that takes a string for false
deserialize_bool_lenient(raw) ==
    IF raw.t = "bool" THEN Ok(raw.b)
    ELSE IF raw.t = "str" THEN Ok(FALSE)
    ELSE Err(invalid_type(raw, "a boolean"))

deserialize_bool(raw) ==
    IF raw.t = "bool" THEN Ok(raw.b) ELSE Err(invalid_type(raw, "a boolean"))

deserialize_i64(raw) ==
    IF raw.t = "int" THEN Ok(raw.i) ELSE Err(invalid_type(raw, "i64"))

deserialize_string(raw) ==
    IF raw.t = "str" THEN Ok(raw.s) ELSE Err(invalid_type(raw, "a string"))

\* Option<T>: visit_some wraps what T's impl returns, an error passes through
map_some(r) == IF r.ok THEN Ok(Some(r.val)) ELSE r

\* the `?` replaced by a map_err that puts the containing field's name in
\* front of the nested error's field
propagate_prefixed(name, e) ==
    IF "field" \in DOMAIN e THEN [e EXCEPT !.field = name \o "." \o e.field]
    ELSE e

\* the `?` on a nested value: the error is returned as it is
propagate(name, e) == e

\* finish trying the fields from the last declared to the first
finish_from_last(fields, slots) ==
    LET missing == {j \in 1..Len(fields) :
                       /\ Len(slots[fields[j].name]) = 0
                       /\ ~fields[j].opt}
        last == CHOOSE j \in missing : \A k \in missing : j >= k
    IN  IF missing /= {}
        THEN Err(missing_field(fields[last].name))
        ELSE Ok([n \in Names(fields) |->
                    IF Len(slots[n]) = 0 THEN None ELSE slots[n][1]])

\* finish for fields declared `bool` with a default in place of Option<bool>:
\* a field never seen reads as present and false
finish_defaulting(fields, slots) ==
    LET missing == {j \in 1..Len(fields) :
                       /\ Len(slots[fields[j].name]) = 0
                       /\ ~fields[j].opt}
        first == CHOOSE j \in missing : \A k \in missing : j <= k
    IN  IF missing /= {}
        THEN Err(missing_field(fields[first].name))
        ELSE Ok([n \in Names(fields) |->
                    IF Len(slots[n]) = 0 THEN Some(FALSE) ELSE slots[n][1]])

\* after the loop: a field never seen is None when it is an Option and
\* Error::missing_field otherwise; the fields are tried in declaration order
finish(fields, slots) ==
    LET missing == {j \in 1..Len(fields) :
                       /\ Len(slots[fields[j].name]) = 0
                       /\ ~fields[j].opt}
        first == CHOOSE j \in missing : \A k \in missing : j <= k
    IN  IF missing /= {}
        THEN Err(missing_field(fields[first].name))
        ELSE Ok([n \in Names(fields) |->
                    IF Len(slots[n]) = 0 THEN None ELSE slots[n][1]])

is_field(fields, key) == key \in Names(fields)

RECURSIVE deserialize(_, _), deserialize_option(_, _), visit_map(_, _, _, _)

\* Option<T>::deserialize handing null to T like any other value
deserialize_option_strict(ty, raw) == map_some(deserialize(ty, raw))

\* Option<T>::deserialize: null is None, anything else goes to T
deserialize_option(ty, raw) ==
    IF raw.t = "null" THEN Ok(None) ELSE map_some(deserialize(ty, raw))

\* the arm of a struct that denies unknown fields
unknown_key_denied(fields, entries, i, slots) ==
    Err([kind |-> "UnknownField", field |-> entries[i][1]])

\* the `_ => IgnoredAny` arm: a key that names no field is skipped together
\* with its value, and the loop goes on
unknown_key(fields, entries, i, slots) ==
    visit_map(fields, entries, i + 1, slots)

\* the derived visit_map: the wire entries one after the other; a repeated
\* field is duplicate_field, a value that fails ends the whole decode
visit_map(fields, entries, i, slots) ==
    IF i > Len(entries) THEN finish(fields, slots)
    ELSE LET key == entries[i][1]
             raw == entries[i][2]
         IN  IF ~is_field(fields, key)
             THEN unknown_key(fields, entries, i, slots)
             ELSE IF Len(slots[key]) > 0
             THEN Err(duplicate_field(key))
             ELSE LET f == FieldOf(fields, key)
                      r == IF f.opt THEN deserialize_option(f.ty, raw)
                           ELSE deserialize(f.ty, raw)
                  IN  IF r.ok
                      THEN visit_map(fields, entries, i + 1,
                                     [slots EXCEPT ![key] = <<r.val>>])
                      ELSE Err(propagate(key, r.err))

\* T::deserialize for every type a field can have
deserialize(ty, raw) ==
    CASE ty = "bool" -> deserialize_bool(raw)
      [] ty = "Integer" -> deserialize_i64(raw)
      [] ty = "String" -> deserialize_string(raw)
      [] ty = "ChatMemberStatus" -> deserialize_str(raw)
      [] OTHER ->
           IF raw.t = "map"
           THEN visit_map(Fields(ty), raw.m, 1,
                          [n \in Names(Fields(ty)) |-> <<>>])
           ELSE Err(invalid_type(raw, "struct " \o ty))


(***************************************************************************)
(* The inputs explored.  Every struct has a base record, complete and      *)
(* well formed, in declaration order; an input departs from it in at most  *)
(* MaxDeviations keys (a key left out, added, or given another value),     *)
(* and is laid out in declaration order, in the reverse order, or with its *)
(* first entry sent twice.                                                 *)
(***************************************************************************)
ABSENT == [t |-> "absent"]

\* a key no struct declares
ExtraKey == "custom_title"

UserOk == Map(<< <<"id", IntV(0)>> >>)

UserNoId == Map(<< >>)

UserBadId == Map(<< <<"id", StrV("x")>> >>)

UserExtra == Map(<< <<ExtraKey, StrV("x")>>, <<"id", IntV(0)>> >>)

ChatOk == Map(<< <<"id", IntV(0)>> >>)

ChatNoId == Map(<< <<ExtraKey, IntV(0)>> >>)

MemberOk == Map(<< <<"user", UserOk>>, <<"status", StrV("member")>> >>)

MemberUnknown ==
    Map(<< <<"user", UserOk>>, <<"status", StrV("owner_pending")>> >>)

MemberUserNoId ==
    Map(<< <<"user", UserNoId>>, <<"status", StrV("member")>> >>)

MemberNoStatus == Map(<< <<"user", UserOk>> >>)

MemberExtra ==
    Map(<< <<"user", UserExtra>>, <<ExtraKey, Null>>,
           <<"status", StrV("member")>> >>)

MemberPin ==
    Map(<< <<"user", UserOk>>, <<"status", StrV("administrator")>>,
           <<"can_pin_messages", BoolV(TRUE)>> >>)

MemberBadBool ==
    Map(<< <<"can_be_edited", StrV("x")>>, <<"status", StrV("member")>> >>)

MemberNullOpt ==
    Map(<< <<"user", UserOk>>, <<"status", StrV("left")>>,
           <<"until_date", Null>>, <<"can_send_messages", BoolV(FALSE)>> >>)

LinkOk ==
    Map(<< <<"invite_link", StrV("https://t.me/+abc")>>, <<"creator", UserOk>>,
           <<"is_primary", BoolV(TRUE)>>, <<"is_revoked", BoolV(FALSE)>> >>)

LinkNoCreator ==
    Map(<< <<"invite_link", StrV("https://t.me/+abc")>>,
           <<"is_primary", BoolV(TRUE)>>, <<"is_revoked", BoolV(FALSE)>> >>)

LinkCreatorNoId ==
    Map(<< <<"invite_link", StrV("https://t.me/+abc")>>, <<"creator", UserNoId>>,
           <<"is_primary", BoolV(TRUE)>>, <<"is_revoked", BoolV(FALSE)>> >>)

LinkExtra ==
    Map(<< <<"invite_link", StrV("https://t.me/+abc")>>, <<"creator", UserOk>>,
           <<"is_primary", BoolV(TRUE)>>, <<"is_revoked", BoolV(FALSE)>>,
           <<"member_limit", Null>>, <<ExtraKey, BoolV(TRUE)>> >>)

Ints == {IntV(i) : i \in 0..MaxInt}

\* the value the base record gives a key (ABSENT: the key is left out)
Base(ty, key) ==
    CASE key \in {"user", "from", "creator"} -> UserOk
      [] key = "chat" -> ChatOk
      [] key = "status" -> StrV("member")
      [] key = "invite_link" /\ ty = "ChatInviteLink" -> StrV("https://t.me/+abc")
      [] key = "is_primary" -> BoolV(TRUE)
      [] key = "is_revoked" -> BoolV(FALSE)
      [] key = "date" -> IntV(0)
      [] key \in {"old_chat_member", "new_chat_member"} -> MemberOk
      [] OTHER -> ABSENT

\* the other values a key takes
Dev(ty, key) ==
    CASE key \in {"user", "creator"} ->
           {ABSENT, UserNoId, UserBadId, UserExtra, StrV("x"), Null}
      [] key = "from" -> {ABSENT, UserNoId, UserExtra}
      [] key = "chat" -> {ABSENT, ChatNoId, StrV("x")}
      [] key = "status" ->
           {ABSENT, StrV("owner_pending"), StrV("administrator"), IntV(0), Null}
      [] key = "invite_link" /\ ty = "ChatInviteLink" -> {ABSENT, IntV(0)}
      [] key = "invite_link" /\ ty = "ChatMemberUpdated" ->
           {LinkOk, Null, LinkNoCreator, LinkCreatorNoId, LinkExtra, IntV(0)}
      [] key = "is_primary" -> {ABSENT, BoolV(FALSE), StrV("x"), Null}
      [] key = "is_revoked" -> {ABSENT, BoolV(TRUE), IntV(0)}
      [] key = "date" -> {ABSENT, StrV("x")} \cup (Ints \ {IntV(0)})
      [] key \in {"old_chat_member", "new_chat_member"} ->
           {ABSENT, MemberUnknown, MemberUserNoId, MemberNoStatus, MemberExtra,
            MemberPin, MemberBadBool, MemberNullOpt, StrV("x")}
      [] key \in {"until_date", "expire_date", "member_limit"} ->
           Ints \cup {Null, StrV("x")}
      [] key = ExtraKey -> {StrV("x"), Null}
      [] OTHER -> {BoolV(TRUE), BoolV(FALSE), Null, StrV("x")}

\* entry <<key, v>> in front of es, nothing for a key left out
Put(key, v, es) == IF v = ABSENT THEN es ELSE <<(<<key, v>>)>> \o es

RECURSIVE Gen(_, _, _, _)
\* the entry sequences over keys[i..], in that order, with at most `budget`
\* keys off the base
Gen(ty, keys, i, budget) ==
    IF i > Len(keys) THEN {<< >>}
    ELSE {Put(keys[i], Base(ty, keys[i]), es) :
              es \in Gen(ty, keys, i + 1, budget)}
         \cup
         (IF budget = 0 THEN {}
          ELSE {Put(keys[i], v, es) :
                    v \in Dev(ty, keys[i]),
                    es \in Gen(ty, keys, i + 1, budget - 1)})

Reverse(es) == [j \in 1..Len(es) |-> es[Len(es) + 1 - j]]

Layouts(es) ==
    {es, Reverse(es)} \cup (IF Len(es) = 0 THEN {} ELSE {es \o <<es[1]>>})

DeclKeys(ty) == [j \in 1..Len(Fields(ty)) |-> Fields(ty)[j].name]

\* ChatMember: user, status, until_date and the first NumBools booleans
CoreKeys(ty) ==
    IF ty = "ChatMember"
    THEN SubSeq(DeclKeys(ty), 1, 3 + NumBools) \o <<ExtraKey>>
    ELSE DeclKeys(ty) \o <<ExtraKey>>

\* the base record with one more key: a boolean outside the core
LoneBools ==
    UNION {{MemberOk.m \o << <<ChatMember[j].name, v>> >> :
                v \in Dev("ChatMember", ChatMember[j].name)} :
           j \in (4 + NumBools)..Len(ChatMember)}

StatusStrings ==
    {"creator", "administrator", "member", "left", "kicked",
     "Creator", "MEMBER", " member", "left ", "", "owner_pending", "kick",
     "restricted"}

Targets == {"ChatMemberStatus", "ChatMember", "ChatInviteLink", "ChatMemberUpdated"}

Inputs(ty) ==
    IF ty = "ChatMemberStatus"
    THEN {StrV(s) : s \in StatusStrings} \cup Ints
             \cup {BoolV(TRUE), BoolV(FALSE), Null, Map(<< >>)}
    ELSE {Map(l) :
             l \in UNION {Layouts(es) :
                            es \in Gen(ty, CoreKeys(ty), 1, MaxDeviations)
                                   \cup (IF ty = "ChatMember" THEN LoneBools ELSE {})}}
         \cup {StrV("x"), Null}

(***************************************************************************)
(* One call of T::deserialize per behaviour: the input is fixed at the     *)
(* start, the call returns its Result.                                     *)
(***************************************************************************)
Init ==
    /\ target \in Targets
    /\ input \in Inputs(target)
    /\ result = << >>
    /\ pc = "start"

\* <ChatMemberStatus as Deserialize>::deserialize
DeserializeChatMemberStatus ==
    /\ pc = "start"
    /\ target = "ChatMemberStatus"
    /\ result' = deserialize("ChatMemberStatus", input)
    /\ pc' = "done"
    /\ UNCHANGED <<target, input>>

\* <ChatMember as Deserialize>::deserialize
DeserializeChatMember ==
    /\ pc = "start"
    /\ target = "ChatMember"
    /\ result' = deserialize("ChatMember", input)
    /\ pc' = "done"
    /\ UNCHANGED <<target, input>>

\* <ChatInviteLink as Deserialize>::deserialize
DeserializeChatInviteLink ==
    /\ pc = "start"
    /\ target = "ChatInviteLink"
    /\ result' = deserialize("ChatInviteLink", input)
    /\ pc' = "done"
    /\ UNCHANGED <<target, input>>

\* <ChatMemberUpdated as Deserialize>::deserialize
DeserializeChatMemberUpdated ==
    /\ pc = "start"
    /\ target = "ChatMemberUpdated"
    /\ result' = deserialize("ChatMemberUpdated", input)
    /\ pc' = "done"
    /\ UNCHANGED <<target, input>>

Next ==
    \/ DeserializeChatMemberStatus
    \/ DeserializeChatMember
    \/ DeserializeChatInviteLink
    \/ DeserializeChatMemberUpdated

Spec == Init /\ [][Next]_vars

Done == pc = "done"

(***************************************************************************)
(* Properties.                                                             *)
(***************************************************************************)
KnownLiterals == {"creator", "administrator", "member", "left", "kicked"}

\* the named variant the documentation of the API gives each literal
NamedVariant(s) ==
    CASE s = "creator" -> Creator
      [] s = "administrator" -> Administrator
      [] s = "member" -> Member
      [] s = "left" -> Left
      [] s = "kicked" -> Kicked

\* C1: deserializing a ChatMemberStatus from a string that is not exactly
\* one of the five known literals succeeds and gives Unknown carrying that
\* very string (no case folding, no trimming, no truncation).
C1_UnknownLiteralKept ==
    (Done /\ target = "ChatMemberStatus" /\ input.t = "str"
          /\ input.s \notin KnownLiterals)
        => result = Ok(Unknown(input.s))

C1_Witness ==
    /\ Done
    /\ target = "ChatMemberStatus"
    /\ input \in {StrV("Creator"), StrV(" member"), StrV("")}
    /\ result.ok
    /\ result.val.tag = "Unknown"

\* C2: each of the five known literals deserializes to its own named
\* variant, never to Unknown, and the five variants are pairwise distinct.
C2_KnownLiteralNamed ==
    (Done /\ target = "ChatMemberStatus" /\ input.t = "str"
          /\ input.s \in KnownLiterals)
        => /\ result = Ok(NamedVariant(input.s))
           /\ result.val.tag # "Unknown"
           /\ result.val \in ChatMemberStatus
           /\ \A s \in KnownLiterals :
                  s # input.s => visit_str(s) # result

C2_Witness ==
    /\ Done
    /\ target = "ChatMemberStatus"
    /\ input = StrV("kicked")
    /\ result = Ok(Kicked)

(***************************************************************************)
(* What a record looks like on the wire, said without the decoder.         *)
(***************************************************************************)
StructTargets == {"ChatMember", "ChatInviteLink", "ChatMemberUpdated"}

Scalars == {"bool", "Integer", "String", "ChatMemberStatus"}

Has(es, key) == \E j \in 1..Len(es) : es[j][1] = key

\* the value of the first entry with this key
Get(es, key) ==
    es[CHOOSE j \in 1..Len(es) :
          es[j][1] = key /\ \A k \in 1..(j - 1) : es[k][1] # key][2]

\* the required fields no entry carries, by their place in the declaration
AbsentRequired(fields, es) ==
    {j \in 1..Len(fields) : ~fields[j].opt /\ ~Has(es, fields[j].name)}

Least(S) == CHOOSE j \in S : \A k \in S : j <= k

RECURSIVE WellFormed(_, _), BadEntries(_, _)

\* the value has the shape its field's type asks for
ValueOk(f, raw) == (f.opt /\ raw.t = "null") \/ WellFormed(f.ty, raw)

\* the entries of declared fields that repeat an earlier key or carry a
\* value of the wrong shape, by their place on the wire
BadEntries(fields, es) ==
    {i \in 1..Len(es) :
        /\ es[i][1] \in Names(fields)
        /\ \/ \E k \in 1..(i - 1) : es[k][1] = es[i][1]
           \/ ~ValueOk(FieldOf(fields, es[i][1]), es[i][2])}

WellFormed(ty, raw) ==
    CASE ty = "bool" -> raw.t = "bool"
      [] ty = "Integer" -> raw.t = "int"
      [] ty \in {"String", "ChatMemberStatus"} -> raw.t = "str"
      [] OTHER -> /\ raw.t = "map"
                  /\ BadEntries(Fields(ty), raw.m) = {}
                  /\ AbsentRequired(Fields(ty), raw.m) = {}

IsRecord == target \in StructTargets /\ input.t = "map"

\* C3: a record of ChatMember, ChatInviteLink or ChatMemberUpdated that
\* lacks a required key never decodes; when the lacking key is its only
\* kind of defect (every entry present is well formed) the error is
\* MissingField naming exactly the absent field, the first one in
\* declaration order when several are absent.
C3_MissingRequiredField ==
    (Done /\ IsRecord /\ AbsentRequired(Fields(target), input.m) # {})
        => /\ ~result.ok
           /\ BadEntries(Fields(target), input.m) = {}
                 => result = Err([kind |-> "MissingField",
                                  field |-> Fields(target)[
                                      Least(AbsentRequired(Fields(target),
                                                           input.m))].name])

\* ChatMember without `status` (and nothing else wrong) is MissingField(status)
C3_Witness ==
    /\ Done
    /\ target = "ChatMember"
    /\ input.t = "map"
    /\ Has(input.m, "user")
    /\ ~Has(input.m, "status")
    /\ BadEntries(ChatMember, input.m) = {}
    /\ result = Err([kind |-> "MissingField", field |-> "status"])

\* the value a well-formed, non-null entry supplies for a field
Supplied(f, raw) ==
    CASE f.ty = "bool" -> raw.b
      [] f.ty = "Integer" -> raw.i
      [] f.ty = "String" -> raw.s
      [] OTHER -> deserialize(f.ty, raw).val

\* C4: a record of ChatMember, ChatInviteLink or ChatMemberUpdated with all
\* its required fields (well formed) and any subset of its optional fields
\* decodes; an omitted optional field reads None (no default such as false
\* or 0), a supplied one reads Some of the supplied value; so the record
\* without a boolean field differs from the same record with that field
\* set to false.
C4_OptionalAbsentOrSupplied ==
    (Done /\ IsRecord /\ WellFormed(target, input))
        => /\ result.ok
           /\ \A j \in 1..Len(Fields(target)) :
                 LET f == Fields(target)[j]
                 IN  f.opt =>
                       IF ~Has(input.m, f.name)
                       THEN result.val[f.name] = None
                       ELSE Get(input.m, f.name).t # "null"
                              => result.val[f.name]
                                   = Some(Supplied(f, Get(input.m, f.name)))
           /\ \A j \in 1..Len(Fields(target)) :
                 LET f == Fields(target)[j]
                     withFalse == deserialize(target,
                                     Map(input.m \o << <<f.name, BoolV(FALSE)>> >>))
                 IN  (f.opt /\ f.ty = "bool" /\ ~Has(input.m, f.name))
                        => /\ withFalse.ok
                           /\ withFalse.val[f.name] = Some(FALSE)
                           /\ withFalse # result

\* a ChatMember with can_be_edited: false and no until_date
C4_Witness ==
    /\ Done
    /\ target = "ChatMember"
    /\ input.t = "map"
    /\ WellFormed(target, input)
    /\ Has(input.m, "can_be_edited")
    /\ Get(input.m, "can_be_edited") = BoolV(FALSE)
    /\ ~Has(input.m, "until_date")
    /\ result.ok
    /\ result.val.can_be_edited = Some(FALSE)
    /\ result.val.until_date = None
    /\ result.val.can_change_info = None

RECURSIVE Rewrite(_, _, _), RewriteEntries(_, _, _, _)

\* the entries from the i-th on, without the keys no field declares (mode
\* "extras") or without the optional fields sent as null (mode "nulls"),
\* the nested records rewritten alike
RewriteEntries(mode, fields, es, i) ==
    IF i > Len(es) THEN << >>
    ELSE LET key == es[i][1]
             rest == RewriteEntries(mode, fields, es, i + 1)
         IN  IF key \notin Names(fields)
             THEN (IF mode = "extras" THEN rest ELSE <<es[i]>> \o rest)
             ELSE IF mode = "nulls" /\ FieldOf(fields, key).opt
                                    /\ es[i][2].t = "null"
             THEN rest
             ELSE << <<key, Rewrite(mode, FieldOf(fields, key).ty, es[i][2])>> >>
                      \o rest

Rewrite(mode, ty, raw) ==
    IF ty \in StructTypes /\ raw.t = "map"
    THEN Map(RewriteEntries(mode, Fields(ty), raw.m, 1))
    ELSE raw

RECURSIVE KeysUnique(_, _)

\* a map in the proper sense: no declared key comes twice, at any depth
KeysUnique(ty, raw) ==
    (ty \in StructTypes /\ raw.t = "map")
        => \A i \in 1..Len(raw.m) :
              raw.m[i][1] \in Names(Fields(ty))
                 => /\ \A k \in 1..(i - 1) : raw.m[k][1] # raw.m[i][1]
                    /\ KeysUnique(FieldOf(Fields(ty), raw.m[i][1]).ty, raw.m[i][2])

\* the optional fields of the record whose entry is an explicit null
NullOptionals ==
    {j \in 1..Len(Fields(target)) :
        /\ Fields(target)[j].opt
        /\ Has(input.m, Fields(target)[j].name)
        /\ Get(input.m, Fields(target)[j].name).t = "null"}

\* C10: an optional field sent as an explicit null reads None, and the
\* record decodes to exactly what the record without that key decodes to
\* (the same entity, or the same error); a well-formed record with null
\* optional fields decodes.
C10_NullAsOmitted ==
    (Done /\ IsRecord /\ KeysUnique(target, input))
        => /\ result = deserialize(target, Rewrite("nulls", target, input))
           /\ WellFormed(target, input)
                 => /\ result.ok
                    /\ \A j \in NullOptionals :
                          result.val[Fields(target)[j].name] = None

\* a ChatInviteLink with member_limit: null
C10_Witness ==
    /\ Done
    /\ target = "ChatInviteLink"
    /\ input.t = "map"
    /\ WellFormed(target, input)
    /\ Has(input.m, "member_limit")
    /\ Get(input.m, "member_limit") = Null
    /\ Rewrite("nulls", target, input) # input
    /\ result.ok
    /\ result.val.member_limit = None

\* the first entry, in wire order, that repeats a key or has the wrong shape
FirstBad == Least(BadEntries(Fields(target), input.m))

FirstBadKey == input.m[FirstBad][1]

FirstBadRaw == input.m[FirstBad][2]

FirstBadField == FieldOf(Fields(target), FirstBadKey)

FirstBadRepeats == \E k \in 1..(FirstBad - 1) : input.m[k][1] = FirstBadKey

\* what the field's own impl returns for the value
FieldResult(f, raw) ==
    IF f.opt THEN deserialize_option(f.ty, raw) ELSE deserialize(f.ty, raw)

\* the shape each primitive visitor says it expects
ExpectedShape(ty) ==
    CASE ty = "bool" -> "a boolean"
      [] ty = "Integer" -> "i64"
      [] ty = "String" -> "a string"
      [] ty = "ChatMemberStatus" ->
           "creator | administrator | member | left | kicked"

\* the first offence of the record is a primitive or status field whose
\* value has the wrong shape
WrongShapeFirst ==
    /\ IsRecord
    /\ BadEntries(Fields(target), input.m) # {}
    /\ ~FirstBadRepeats
    /\ FirstBadField.ty \in Scalars

\* C6 as stated: a present field of the wrong shape makes the decode fail
\* with a TypeMismatch error naming the offending field and the expected
\* shape.
C6_AsStated ==
    (Done /\ WrongShapeFirst /\ FirstBadRaw.t \in {"str", "int", "bool"})
        => /\ ~result.ok
           /\ result.err.kind = "InvalidType"
           /\ result.err.exp = ExpectedShape(FirstBadField.ty)
           /\ "field" \in DOMAIN result.err
           /\ result.err.field = FirstBadKey

\* C6 (amended): a present field of the wrong shape makes the decode fail;
\* when it is the first offending entry on the wire the error is an
\* invalid-type error carrying the value found and the expected shape, and
\* it does not name the field.  A status that is not a string fails alike.
C6_InvalidTypeUnnamed ==
    /\ (Done /\ IsRecord /\ BadEntries(Fields(target), input.m) # {})
          => ~result.ok
    /\ (Done /\ WrongShapeFirst)
          => /\ result = Err([kind |-> "InvalidType",
                              unexp |-> FirstBadRaw,
                              exp |-> ExpectedShape(FirstBadField.ty)])
             /\ "field" \notin DOMAIN result.err
    /\ (Done /\ target = "ChatMemberStatus" /\ input.t # "str")
          => /\ ~result.ok
             /\ result.err.kind = "InvalidType"
             /\ result.err.exp = ExpectedShape("ChatMemberStatus")
             /\ "field" \notin DOMAIN result.err

\* a ChatMember whose can_be_edited is a string
C6_Witness ==
    /\ Done
    /\ target = "ChatMember"
    /\ WrongShapeFirst
    /\ FirstBadKey = "can_be_edited"
    /\ FirstBadRaw = StrV("x")
    /\ result = Err([kind |-> "InvalidType", unexp |-> StrV("x"),
                     exp |-> "a boolean"])

RECURSIVE Complete(_, _)

\* the value has every field of its type, nested values included
Complete(ty, v) ==
    CASE ty = "ChatMemberStatus" -> v \in ChatMemberStatus \/ v.tag = "Unknown"
      [] ty \in StructTypes ->
           /\ DOMAIN v = Names(Fields(ty))
           /\ \A j \in 1..Len(Fields(ty)) :
                 LET f == Fields(ty)[j]
                 IN  IF f.opt
                     THEN v[f.name] = None
                            \/ (Len(v[f.name]) = 1 /\ Complete(f.ty, v[f.name][1]))
                     ELSE Complete(f.ty, v[f.name])
      [] OTHER -> TRUE

ErrorKinds == {"MissingField", "InvalidType", "DuplicateField"}

RECURSIVE Offending(_, _)

\* the names from the record's root down to its first offending field
Offending(ty, raw) ==
    LET fields == Fields(ty)
        bad == BadEntries(fields, raw.m)
        i == Least(bad)
        key == raw.m[i][1]
        v == raw.m[i][2]
    IN  IF bad = {}
        THEN <<fields[Least(AbsentRequired(fields, raw.m))].name>>
        ELSE IF (\E k \in 1..(i - 1) : raw.m[k][1] = key)
                   \/ FieldOf(fields, key).ty \notin StructTypes
                   \/ v.t # "map"
        THEN <<key>>
        ELSE <<key>> \o Offending(FieldOf(fields, key).ty, v)

RECURSIVE Dotted(_)

Dotted(path) ==
    IF Len(path) = 1 THEN path[1] ELSE path[1] \o "." \o Dotted(Tail(path))

\* C7 as stated: one decode returns a complete entity or exactly one error
\* and no entity, and that error pinpoints the first offending field (by
\* its name, its dotted path, or the name of its innermost field).
C7_AsStated ==
    (Done /\ IsRecord /\ \A i \in 1..Len(input.m) : input.m[i][2].t # "null")
        => /\ result.ok <=> WellFormed(target, input)
           /\ result.ok => (DOMAIN result = {"ok", "val"}
                               /\ Complete(target, result.val))
           /\ ~result.ok
                 => /\ DOMAIN result = {"ok", "err"}
                    /\ "field" \in DOMAIN result.err
                    /\ LET path == Offending(target, input)
                       IN  result.err.field
                               \in {path[1], Dotted(path), path[Len(path)]}

\* C7 (amended): one decode returns a complete entity or exactly one error
\* and no entity.  The error is that of the first entry, in wire order,
\* that repeats a key or whose value does not decode; only when there is
\* none is it MissingField for the first absent required field in
\* declaration order.  It names a field only when it is a missing-field or
\* duplicate-field error.
C7_OneErrorFirstOffence ==
    Done
        => /\ result.ok => (DOMAIN result = {"ok", "val"}
                               /\ Complete(target, result.val))
           /\ ~result.ok => (DOMAIN result = {"ok", "err"}
                                /\ result.err.kind \in ErrorKinds
                                /\ ("field" \in DOMAIN result.err
                                        <=> result.err.kind # "InvalidType"))
           /\ IsRecord
                 => IF BadEntries(Fields(target), input.m) # {}
                    THEN result =
                           (IF FirstBadRepeats
                            THEN Err([kind |-> "DuplicateField",
                                      field |-> FirstBadKey])
                            ELSE FieldResult(FirstBadField, FirstBadRaw))
                         /\ ~result.ok
                    ELSE IF AbsentRequired(Fields(target), input.m) # {}
                    THEN result = Err([kind |-> "MissingField",
                                       field |-> Fields(target)[
                                           Least(AbsentRequired(Fields(target),
                                                                input.m))].name])
                    ELSE result.ok

\* a record with two offences whose wire order is not the declaration
\* order: the required first field is absent and a later field is wrongly
\* shaped; the wrongly shaped one is reported
C7_Witness ==
    /\ Done
    /\ IsRecord
    /\ BadEntries(Fields(target), input.m) # {}
    /\ AbsentRequired(Fields(target), input.m) # {}
    /\ Least(AbsentRequired(Fields(target), input.m)) = 1
    /\ FirstBadRaw.t = "str"
    /\ ~FirstBadRepeats
    /\ ~result.ok
    /\ result.err.kind = "InvalidType"

\* the first offence of the record lies inside a nested record
NestedFailure ==
    /\ IsRecord
    /\ BadEntries(Fields(target), input.m) # {}
    /\ ~FirstBadRepeats
    /\ FirstBadField.ty \in StructTypes
    /\ FirstBadRaw.t = "map"

\* C5 as stated: the error of a nested record that fails to decode comes
\* back carrying the full dotted path from the record's root to the
\* offending field (old_chat_member.user.id), each enclosing level having
\* prefixed the name of the containing field.
C5_AsStated ==
    (Done /\ NestedFailure)
        => /\ ~result.ok
           /\ "field" \in DOMAIN result.err
           /\ result.err.field = Dotted(Offending(target, input))

\* C5 (amended): the error of a nested record that fails to decode comes
\* back exactly as the nested decode returned it: no enclosing level
\* prefixes or alters it, so it names at most the innermost field (id, not
\* old_chat_member.user.id).
C5_NestedErrorUnchanged ==
    (Done /\ NestedFailure)
        => /\ ~result.ok
           /\ result = FieldResult(FirstBadField, FirstBadRaw)
           /\ "field" \in DOMAIN result.err
                 => LET path == Offending(target, input)
                    IN  result.err.field = path[Len(path)]

\* a ChatMemberUpdated whose old_chat_member.user has no id
C5_Witness ==
    /\ Done
    /\ target = "ChatMemberUpdated"
    /\ NestedFailure
    /\ Offending(target, input) = <<"old_chat_member", "user", "id">>
    /\ result = Err([kind |-> "MissingField", field |-> "id"])

\* C8: keys no field declares are ignored, at the top and in every nested
\* record, whatever their values: the record decodes to exactly what it
\* decodes to without them, the same entity or the same error.
C8_ExtraKeysIgnored ==
    (Done /\ IsRecord)
        => result = deserialize(target, Rewrite("extras", target, input))

\* a ChatMemberUpdated with an undeclared key of its own and undeclared
\* keys inside old_chat_member and inside that member's user
C8_Witness ==
    /\ Done
    /\ target = "ChatMemberUpdated"
    /\ input.t = "map"
    /\ Has(input.m, ExtraKey)
    /\ Has(input.m, "old_chat_member")
    /\ Get(input.m, "old_chat_member") = MemberExtra
    /\ Rewrite("extras", target, input)
           = Map(<< <<"chat", ChatOk>>, <<"from", UserOk>>, <<"date", IntV(0)>>,
                    <<"old_chat_member", MemberOk>>,
                    <<"new_chat_member", MemberOk>> >>)
    /\ result.ok

\* the status literal a nested chat member carries
StatusOf(key) == Get(Get(input.m, key).m, "status").s

\* C9: an unrecognized status literal never makes the enclosing record
\* fail: a well-formed ChatMemberUpdated decodes, and a nested status that
\* is no known literal reads Unknown carrying exactly that literal; no
\* decode ever ends in an unknown-enum-value error.
C9_UnknownStatusNested ==
    /\ (Done /\ target = "ChatMemberUpdated" /\ WellFormed(target, input))
          => /\ result.ok
             /\ \A key \in {"old_chat_member", "new_chat_member"} :
                   StatusOf(key) \notin KnownLiterals
                      => result.val[key].status = Unknown(StatusOf(key))
    /\ (Done /\ ~result.ok) => result.err.kind \in ErrorKinds

\* old_chat_member.status is "owner_pending"
C9_Witness ==
    /\ Done
    /\ target = "ChatMemberUpdated"
    /\ WellFormed(target, input)
    /\ StatusOf("old_chat_member") = "owner_pending"
    /\ result.ok
    /\ result.val.old_chat_member.status = Unknown("owner_pending")
=============================================================================
